---- MODULE Spec2Model ----
(***************************************************************************)
(* Model of custom_components/weather_data/sensor.py: the met.no weather   *)
(* sensor platform.  WeatherData.fetching_data is the fetch/retry loop,    *)
(* WeatherData.updating_devices the selection and extraction pass, and     *)
(* async_setup_platform the platform setup.                                *)
(*                                                                         *)
(* Clock values and entry times are counted in half hours.  A delay given  *)
(* to async_call_later is kept in minutes, as the code computes it; the    *)
(* host fires the callback some time later, and the model lets a pending   *)
(* callback fire at any later step.                                        *)
(***************************************************************************)
EXTENDS Integers, Sequences, FiniteSets

VARIABLES
    pc,         \* position of async_setup_platform
    config,     \* latitude, longitude and forecast as async_setup_platform reads them
    data,       \* WeatherData.data
    devices,    \* WeatherData.devices: sequence of WeatherSensor
    tracked,    \* async_track_utc_time_change(weather.updating_devices) registered
    added,      \* async_add_entities(dev) was called
    inflight,   \* number of fetching_data calls suspended in websession.get
    timers,     \* pending async_call_later(…, fetching_data): delays in minutes
    now,        \* dt_util.utcnow(), in half hours
    failures,   \* consecutive try_again calls so far (saturating)
    lastFetch,  \* what the fetching_data call of the last step did
    lastPass    \* what the updating_devices pass of the last step did

vars == <<pc, config, data, devices, tracked, added, inflight, timers, now,
          failures, lastFetch, lastPass>>

-----------------------------------------------------------------------------
(* Bounds of the model *)

MaxLen == 2         \* longest timeseries a response carries
MaxNow == 4         \* the clock stops advancing here
MaxFailures == 2    \* the count of consecutive failures saturates here

-----------------------------------------------------------------------------
(* Program constants *)

HOUR == 2                   \* timedelta(hours=1), in half hours
BAD_REQUEST == 400          \* HTTPStatus.BAD_REQUEST
RefreshMinutes == 60        \* async_call_later(self.hass, 60 * 60, …), in minutes
RetryBase == 15             \* minutes = 15 + randrange(6)
RetrySpread == 6

None == "None"

SENSOR_TYPES ==
    {"symbol", "precipitation", "temperature", "windSpeed", "windGust",
     "pressure", "windDirection", "humidity", "fog", "cloudiness",
     "lowClouds", "mediumClouds", "highClouds", "dewpointTemperature"}

DEFAULT_FORECAST == 0

Abs(x) == IF x < 0 THEN -x ELSE x

-----------------------------------------------------------------------------
(* Inputs: configurations and responses of the remote endpoint *)

\* CONF_MONITORED_CONDITIONS of the configuration under study
MonitoredConditions == <<"temperature", "precipitation">>

\* CONF_FORECAST, in hours (vol.Coerce(int): negative offsets are accepted)
Forecasts == {-1, DEFAULT_FORECAST, 1}

\* A coordinate is set or None, in the platform configuration and in hass.config
Coordinate == {None, "set"}

\* config.get(key, default): the platform's value when it has the key
ConfGet(platform, host) == IF platform # None THEN platform ELSE host

\* latitude, longitude and forecast of lines 93-95, for every way of setting
\* the coordinates in the platform configuration and in hass.config
Configs ==
    {[latitude |-> ConfGet(pla, hla), longitude |-> ConfGet(plo, hlo), forecast |-> f]
        : pla \in Coordinate, hla \in Coordinate,
          plo \in Coordinate, hlo \in Coordinate, f \in Forecasts}

EmptyDict == [k \in {} |-> None]

\* An entry with both an instant bag and a next_1_hours bag
Full(t, temp) ==
    [time |-> t,
     data |-> [instant |-> [details |-> [air_temperature |-> temp]],
               next_1_hours |-> [details |-> [precipitation_amount |-> "0.0"]]]]

\* An entry with an instant bag only (as the feed's long-range entries)
InstantOnly(t, temp) ==
    [time |-> t,
     data |-> [instant |-> [details |-> [air_temperature |-> temp]]]]

\* An entry with both bags whose instant bag has no air_temperature
NoTemperature(t) ==
    [time |-> t,
     data |-> [instant |-> [details |-> EmptyDict],
               next_1_hours |-> [details |-> [precipitation_amount |-> "0.0"]]]]

Entries ==
    {Full(0, "5.0"), Full(HOUR, "6.2"), InstantOnly(0, "4.1"), NoTemperature(HOUR)}

SeqsUpTo(S, n) == UNION {[1..k -> S] : k \in 0..n}

\* Parsed payloads: kind "empty" is a falsy document ({} or an empty body),
\* "series" a document with properties.timeseries, "invalid" a non-empty
\* document without properties.timeseries.
EmptyData == [kind |-> "empty", timeseries |-> <<>>]
InvalidData == [kind |-> "invalid", timeseries |-> <<>>]
SeriesData(s) == [kind |-> "series", timeseries |-> s]

Payloads ==
    {EmptyData, InvalidData} \cup {SeriesData(s) : s \in SeqsUpTo(Entries, MaxLen)}

\* Outcomes of websession.get and resp.json()
\*   exc: the exception websession.get raises, body: what resp.json() meets
Responses ==
    {[exc |-> e, status |-> 0, body |-> "none", json |-> EmptyData]
        : e \in {"TimeoutError", "ClientError"}}
    \cup {[exc |-> "none", status |-> s, body |-> "json", json |-> EmptyData]
        : s \in {BAD_REQUEST, 503}}
    \cup {[exc |-> "none", status |-> 200, body |-> b, json |-> EmptyData]
        : b \in {"ContentTypeError", "JSONDecodeError"}}
    \cup {[exc |-> "none", status |-> s, body |-> "json", json |-> p]
        : s \in {200}, p \in Payloads}

-----------------------------------------------------------------------------
(* WeatherData.updating_devices: selection and extraction *)

\* The branch chain on dev.type: where each sensor type is read in an entry
FieldPath(type) ==
    CASE type = "symbol" -> <<"next_1_hours", "summary", "symbol_code">>
      [] type = "precipitation" -> <<"next_1_hours", "details", "precipitation_amount">>
      [] type = "temperature" -> <<"instant", "details", "air_temperature">>
      [] type = "pressure" -> <<"instant", "details", "air_pressure_at_sea_level">>
      [] type = "humidity" -> <<"instant", "details", "relative_humidity">>
      [] type = "dewpointTemperature" -> <<"instant", "details", "dew_point_temperature">>
      [] type = "windSpeed" -> <<"instant", "details", "wind_speed">>
      [] type = "windGust" -> <<"instant", "details", "wind_speed_of_gust">>
      [] type = "windDirection" -> <<"instant", "details", "wind_from_direction">>
      [] type = "fog" -> <<"instant", "details", "fog_area_fraction">>
      [] type = "cloudiness" -> <<"instant", "details", "cloud_area_fraction">>
      [] type = "lowClouds" -> <<"instant", "details", "cloud_area_fraction_low">>
      [] type = "mediumClouds" -> <<"instant", "details", "cloud_area_fraction_medium">>
      [] type = "highClouds" -> <<"instant", "details", "cloud_area_fraction_high">>

\* d[a][b][c] raises KeyError
KeyError3(d, a, b, c) ==
    \/ a \notin DOMAIN d
    \/ b \notin DOMAIN d[a]
    \/ c \notin DOMAIN d[a][b]

\* The first try block of the entry loop: both detail bags must be there
BagsMissing(entry) ==
    \/ "instant" \notin DOMAIN entry.data
    \/ "details" \notin DOMAIN entry.data["instant"]
    \/ "next_1_hours" \notin DOMAIN entry.data
    \/ "details" \notin DOMAIN entry.data["next_1_hours"]

\* An entry the loop passes over for a sensor of this type (continue)
Skipped(type, entry) ==
    LET p == FieldPath(type) IN
    BagsMissing(entry) \/ KeyError3(entry.data, p[1], p[2], p[3])

valid_from(entry) == entry.time
valid_to(entry) == entry.time + HOUR

forecast_time(t, forecast) == t + forecast * HOUR

ExpiredLate(entry, t) == t > valid_to(entry)

\* if now >= valid_to: continue
Expired(entry, t) == t >= valid_to(entry)

average_dist(entry, ft) ==
    Abs(valid_to(entry) - ft) + Abs(valid_from(entry) - ft)

\* The filter loop: (average_dist, time_entry) of the entries not yet passed,
\* in feed order
RECURSIVE Candidates(_, _, _)
Candidates(series, t, ft) ==
    IF series = <<>> THEN <<>>
    ELSE LET e == Head(series)
             rest == Candidates(Tail(series), t, ft)
         IN  IF Expired(e, t) THEN rest
             ELSE <<[dist |-> average_dist(e, ft), entry |-> e]>> \o rest

RECURSIVE InsertBeforeEqual(_, _)
InsertBeforeEqual(x, s) ==
    IF s = <<>> THEN <<x>>
    ELSE IF x.dist <= Head(s).dist THEN <<x>> \o s
    ELSE <<Head(s)>> \o InsertBeforeEqual(x, Tail(s))

\* Where a stable sort puts item x in the sorted list s: behind every item
\* whose key is not larger
RECURSIVE Insert(_, _)
Insert(x, s) ==
    IF s = <<>> THEN <<x>>
    ELSE IF x.dist < Head(s).dist THEN <<x>> \o s
    ELSE <<Head(s)>> \o Insert(x, Tail(s))

\* ordered_entries.sort(key=lambda item: item[0])
RECURSIVE SortByDist(_)
SortByDist(s) ==
    IF s = <<>> THEN <<>>
    ELSE Insert(s[Len(s)], SortByDist(SubSeq(s, 1, Len(s) - 1)))

ordered_entries(series, t, forecast) ==
    SortByDist(Candidates(series, t, forecast_time(t, forecast)))

\* The entry loop of one device: the value of the first entry not skipped,
\* None when the loop runs out
RECURSIVE new_state(_, _)
new_state(type, ordered) ==
    IF ordered = <<>> THEN None
    ELSE LET e == Head(ordered).entry
             p == FieldPath(type)
         IN  IF Skipped(type, e) THEN new_state(type, Tail(ordered))
             ELSE e.data[p[1]][p[2]][p[3]]

WeatherSensorZero(sensor_type) == [type |-> sensor_type, state |-> "0.0", hass |-> FALSE]

\* WeatherSensor.__init__
WeatherSensor(sensor_type) == [type |-> sensor_type, state |-> None, hass |-> FALSE]

States(devs) == [i \in DOMAIN devs |-> devs[i].state]
Attached(devs) == [i \in DOMAIN devs |-> devs[i].hass]

\* if not self.data
Falsy(d) == d.kind = "empty"

\* self.data["properties"]["timeseries"] raises KeyError
SeriesMissing(d) == d.kind = "invalid"

UpdateDeviceNotStored(dev, ns) == dev

\* The device loop for one device: the state is rewritten, and the host told
\* when the device is attached to it, only when the new state differs
UpdateDevice(dev, ns) ==
    IF ns # dev.state THEN [dev EXCEPT !.state = ns] ELSE dev

PushesKnownOnly(dev, ns) ==
    IF ns # dev.state /\ dev.state # None /\ dev.hass THEN <<ns>> ELSE <<>>

PushesUnchanged(dev, ns) ==
    IF dev.hass THEN <<ns>> ELSE <<>>

Pushes(dev, ns) ==
    IF ns # dev.state /\ dev.hass THEN <<ns>> ELSE <<>>

DeviceLoopAlways(ordered) == TRUE

\* if ordered_entries
DeviceLoopRuns(ordered) == ordered # <<>>

NoPass ==
    [caller |-> "none", raised |-> FALSE, ran |-> FALSE, ordered |-> <<>>,
     before |-> <<>>, attached |-> <<>>, extracted |-> <<>>, pushed |-> <<>>,
     repeat |-> FALSE]

\* The record of a pass, marked when the step before it ran a pass too
FollowsPass(pass, prev) ==
    IF pass.caller = "none" THEN pass
    ELSE [pass EXCEPT !.repeat = prev.caller # "none"]

\* One call of updating_devices on data d with devices devs at time t:
\* the devices afterwards and a record of the pass
updating_devices(caller, d, devs, t, forecast) ==
    LET quiet == [i \in DOMAIN devs |-> <<>>]
        idle == [NoPass EXCEPT !.caller = caller, !.before = States(devs),
                               !.attached = Attached(devs),
                               !.extracted = States(devs), !.pushed = quiet]
    IN
    IF Falsy(d) THEN [devices |-> devs, pass |-> idle]
    ELSE IF SeriesMissing(d)
    THEN [devices |-> devs, pass |-> [idle EXCEPT !.raised = TRUE]]
    ELSE LET ordered == ordered_entries(d.timeseries, t, forecast) IN
         IF ~DeviceLoopRuns(ordered)
         THEN [devices |-> devs, pass |-> [idle EXCEPT !.ran = TRUE]]
         ELSE LET ns == [i \in DOMAIN devs |-> new_state(devs[i].type, ordered)] IN
              [devices |-> [i \in DOMAIN devs |-> UpdateDevice(devs[i], ns[i])],
               pass |-> [caller |-> caller, raised |-> FALSE, ran |-> TRUE,
                         ordered |-> ordered, before |-> States(devs),
                         attached |-> Attached(devs),
                         extracted |-> ns, repeat |-> FALSE,
                         pushed |-> [i \in DOMAIN devs |-> Pushes(devs[i], ns[i])]]]

-----------------------------------------------------------------------------
(* WeatherData.fetching_data: the fetch/retry loop *)

RetryMinutesWide == {RetryBase + k : k \in 0..RetrySpread}

\* minutes = 15 + randrange(6)
RetryMinutes == {RetryBase + k : k \in 0..(RetrySpread - 1)}

\* try_again: async_call_later(self.hass, minutes * 60, self.fetching_data);
\* the pending callbacks it may leave, one for each draw of randrange
try_again(tm) == {Append(tm, minutes) : minutes \in RetryMinutes}

\* if resp.status >= HTTPStatus.BAD_REQUEST
StatusIsError(status) == status >= BAD_REQUEST

\* except (asyncio.TimeoutError, aiohttp.ClientError): ContentTypeError, which
\* resp.json() raises on a wrong content type, is a ClientError; the
\* JSONDecodeError it raises on a malformed body is not.
Caught(exc) == exc \in {"TimeoutError", "ClientError", "ContentTypeError"}

NoFetch ==
    [outcome |-> "none", try_again |-> 0, raised |-> FALSE, scheduled |-> <<>>,
     steps |-> <<>>]

Raises(outcome, d, devs, tm) ==
    [data |-> d, devices |-> devs, timers |-> tm, pass |-> NoPass,
     fetch |-> [NoFetch EXCEPT !.outcome = outcome, !.raised = TRUE]]

RetriesClearing(outcome, d, devs, tm) ==
    {[data |-> EmptyData, devices |-> devs, timers |-> tm2, pass |-> NoPass,
      fetch |-> [outcome |-> outcome, try_again |-> 1, raised |-> FALSE,
                 scheduled |-> SubSeq(tm2, Len(tm) + 1, Len(tm2)),
                 steps |-> <<"try_again">>]]
        : tm2 \in try_again(tm)}

\* The return after try_again(err)
Retries(outcome, d, devs, tm) ==
    {[data |-> d, devices |-> devs, timers |-> tm2, pass |-> NoPass,
      fetch |-> [outcome |-> outcome, try_again |-> 1, raised |-> FALSE,
                 scheduled |-> SubSeq(tm2, Len(tm) + 1, Len(tm2)),
                 steps |-> <<"try_again">>]]
        : tm2 \in try_again(tm)}

\* self.data = json; await self.updating_devices(); async_call_later(…, 60 * 60, …)
Stores(json, devs, tm, t, forecast) ==
    LET u == updating_devices("fetching_data", json, devs, t, forecast) IN
    IF u.pass.raised
    THEN [data |-> json, devices |-> u.devices, timers |-> tm, pass |-> u.pass,
          fetch |-> [outcome |-> "ok", try_again |-> 0, raised |-> TRUE,
                     scheduled |-> <<>>,
                     steps |-> <<"store", "updating_devices">>]]
    ELSE [data |-> json, devices |-> u.devices,
          timers |-> Append(tm, RefreshMinutes), pass |-> u.pass,
          fetch |-> [outcome |-> "ok", try_again |-> 0, raised |-> FALSE,
                     scheduled |-> <<RefreshMinutes>>,
                     steps |-> <<"store", "updating_devices", "call_later">>]]

fetching_dataExtractsFirst(r, d, devs, tm, t, forecast) ==
    IF r.exc # "none" THEN
        IF Caught(r.exc) THEN Retries(r.exc, d, devs, tm)
        ELSE {Raises(r.exc, d, devs, tm)}
    ELSE IF StatusIsError(r.status) THEN Retries("status", d, devs, tm)
    ELSE IF r.body # "json" THEN
        IF Caught(r.body) THEN Retries(r.body, d, devs, tm)
        ELSE {Raises(r.body, d, devs, tm)}
    ELSE {[Stores(d, devs, tm, t, forecast) EXCEPT !.data = r.json]}

fetching_dataNoReturn(r, d, devs, tm, t, forecast) ==
    IF r.exc # "none" THEN
        IF Caught(r.exc) THEN Retries(r.exc, d, devs, tm)
        ELSE {Raises(r.exc, d, devs, tm)}
    ELSE IF StatusIsError(r.status)
    THEN {Stores(r.json, devs, x.timers, t, forecast) : x \in Retries("status", d, devs, tm)}
    ELSE IF r.body # "json" THEN
        IF Caught(r.body) THEN Retries(r.body, d, devs, tm)
        ELSE {Raises(r.body, d, devs, tm)}
    ELSE {Stores(r.json, devs, tm, t, forecast)}

\* What one call of fetching_data may do once websession.get has answered r:
\* the set of its results, one for each draw of randrange in try_again
fetching_data(r, d, devs, tm, t, forecast) ==
    IF r.exc # "none" THEN
        IF Caught(r.exc) THEN Retries(r.exc, d, devs, tm)
        ELSE {Raises(r.exc, d, devs, tm)}
    ELSE IF StatusIsError(r.status) THEN Retries("status", d, devs, tm)
    ELSE IF r.body # "json" THEN
        IF Caught(r.body) THEN Retries(r.body, d, devs, tm)
        ELSE {Raises(r.body, d, devs, tm)}
    ELSE {Stores(r.json, devs, tm, t, forecast)}

-----------------------------------------------------------------------------
(* The state machine *)

Min(a, b) == IF a < b THEN a ELSE b

RemoveAt(s, i) == SubSeq(s, 1, i - 1) \o SubSeq(s, i + 1, Len(s))

Init ==
    /\ pc = "start"
    /\ config \in Configs
    /\ data = EmptyData
    /\ devices = <<>>
    /\ tracked = FALSE
    /\ added = FALSE
    /\ inflight = 0
    /\ timers = <<>>
    /\ now = 0
    /\ failures = 0
    /\ lastFetch = NoFetch
    /\ lastPass = NoPass

CoordinateMissingInBoth(latitude, longitude) == latitude = None /\ longitude = None

\* if None in (latitude, longitude)
CoordinateMissing(latitude, longitude) == None \in {latitude, longitude}

\* async_setup_platform up to its first suspension (in websession.get of the
\* first fetching_data call), or to return False
async_setup_platform ==
    /\ pc = "start"
    /\ IF CoordinateMissing(config.latitude, config.longitude)
       THEN /\ pc' = "aborted"
            /\ UNCHANGED <<devices, tracked, inflight>>
       ELSE /\ pc' = "setup_fetch"
            /\ devices' = [i \in DOMAIN MonitoredConditions |->
                              WeatherSensor(MonitoredConditions[i])]
            /\ tracked' = TRUE
            /\ inflight' = 1
    /\ lastFetch' = NoFetch
    /\ lastPass' = NoPass
    /\ UNCHANGED <<config, data, added, timers, now, failures>>

\* async_add_entities(dev): the sensors are attached to the host
Attach(devs) == [i \in DOMAIN devs |-> [devs[i] EXCEPT !.hass = TRUE]]

\* A suspended fetching_data call resumes with the response r and runs to its
\* end; the call made by async_setup_platform is followed by async_add_entities
FetchCompletes(r) ==
    /\ inflight > 0
    /\ \E f \in fetching_data(r, data, devices, timers, now, config.forecast) :
       LET insetup == pc = "setup_fetch"
       IN  /\ data' = f.data
           /\ timers' = f.timers
           /\ lastFetch' = f.fetch
           /\ lastPass' = FollowsPass(f.pass, lastPass)
           /\ failures' = IF f.fetch.try_again > 0
                          THEN Min(failures + f.fetch.try_again, MaxFailures)
                          ELSE IF f.fetch.raised THEN failures ELSE 0
           /\ IF insetup /\ ~f.fetch.raised
              THEN /\ pc' = "running"
                   /\ added' = TRUE
                   /\ devices' = Attach(f.devices)
              ELSE /\ pc' = IF insetup THEN "setup_raised" ELSE pc
                   /\ added' = added
                   /\ devices' = f.devices
    /\ inflight' = inflight - 1
    /\ UNCHANGED <<config, tracked, now>>

\* A pending async_call_later fires: fetching_data runs up to websession.get
TimerFires ==
    /\ \E i \in DOMAIN timers :
        /\ timers' = RemoveAt(timers, i)
        /\ inflight' = inflight + 1
    /\ lastFetch' = NoFetch
    /\ lastPass' = NoPass
    /\ UNCHANGED <<pc, config, data, devices, tracked, added, now, failures>>

HourlyTriggerFetching ==
    /\ tracked
    /\ LET u == updating_devices("hourly", data, devices, now, config.forecast) IN
        /\ devices' = u.devices
        /\ lastPass' = FollowsPass(u.pass, lastPass)
    /\ lastFetch' = NoFetch
    /\ inflight' = inflight + 1
    /\ UNCHANGED <<pc, config, data, tracked, added, timers, now, failures>>

\* The hourly trigger of async_track_utc_time_change calls updating_devices
HourlyTrigger ==
    /\ tracked
    /\ LET u == updating_devices("hourly", data, devices, now, config.forecast) IN
        /\ devices' = u.devices
        /\ lastPass' = FollowsPass(u.pass, lastPass)
    /\ lastFetch' = NoFetch
    /\ UNCHANGED <<pc, config, data, tracked, added, inflight, timers, now, failures>>

\* Time passes
Tick ==
    /\ now < MaxNow
    /\ now' = now + 1
    /\ lastFetch' = NoFetch
    /\ lastPass' = NoPass
    /\ UNCHANGED <<pc, config, data, devices, tracked, added, inflight, timers, failures>>

Next ==
    \/ async_setup_platform
    \/ \E r \in Responses : FetchCompletes(r)
    \/ TimerFires
    \/ HourlyTrigger
    \/ Tick

Spec == Init /\ [][Next]_vars

-----------------------------------------------------------------------------
(* Properties *)

FailureOutcomes ==
    {"TimeoutError", "ClientError", "status", "ContentTypeError", "JSONDecodeError"}

\* The entry carries a value for the field of a sensor of this type
HasField(type, entry) ==
    LET p == FieldPath(type) IN ~KeyError3(entry.data, p[1], p[2], p[3])

FieldOf(type, entry) ==
    LET p == FieldPath(type) IN entry.data[p[1]][p[2]][p[3]]

\* Positions of the candidates that carry the field of a sensor of this type
WithField(type, ordered) ==
    {k \in DOMAIN ordered : HasField(type, ordered[k].entry)}

FirstOf(S) == CHOOSE k \in S : \A l \in S : k <= l

\* C1: once setup has returned, a refresh is in flight or a refresh timer is
\* pending, and exactly one of them: the fetch loop never stops.
C1_LoopNeverStops ==
    pc = "running" => inflight + Len(timers) = 1

\* C2: a fetch that fails for any of the failure conditions calls try_again
\* once, leaves one retry and no 1-hour follow-up scheduled, and raises nothing.
C2_FailuresHandledAlike ==
    lastFetch.outcome \in FailureOutcomes =>
        /\ lastFetch.try_again = 1
        /\ ~lastFetch.raised
        /\ Len(lastFetch.scheduled) = 1
        /\ lastFetch.scheduled[1] \in 15..20

\* C3: after a pass with a non-empty candidate list, a sensor whose field is in
\* no candidate keeps the value it had, and the host is not notified for it.
C3_AbsentFieldKeepsValue ==
    \A i \in DOMAIN devices :
        (lastPass.ordered # <<>> /\ WithField(devices[i].type, lastPass.ordered) = {})
            => /\ devices[i].state = lastPass.before[i]
               /\ lastPass.pushed[i] = <<>>

\* C4: the value a pass extracts for a sensor is the value of its field in the
\* first candidate, in ascending distance order, that carries that field.
C4_FirstEntryWithField ==
    \A i \in DOMAIN devices :
        LET S == WithField(devices[i].type, lastPass.ordered) IN
        S # {} =>
            lastPass.extracted[i] = FieldOf(devices[i].type, lastPass.ordered[FirstOf(S)].entry)

\* C5: no candidate of a pass has valid_to <= now, and every value a pass
\* extracts is carried by an entry of the stored series with valid_to > now.
C5_NoExpiredCandidate ==
    /\ \A k \in DOMAIN lastPass.ordered : ~(lastPass.ordered[k].entry.time + HOUR <= now)
    /\ \A i \in DOMAIN devices :
        (lastPass.ordered # <<>> /\ lastPass.extracted[i] # None) =>
            \E k \in DOMAIN data.timeseries :
                /\ data.timeseries[k].time + HOUR > now
                /\ HasField(devices[i].type, data.timeseries[k])
                /\ FieldOf(devices[i].type, data.timeseries[k]) = lastPass.extracted[i]

\* A pass whose candidates leave out an expired entry that is nearer to the
\* target time than every candidate
C5_Witness ==
    /\ lastPass.ordered # <<>>
    /\ \E k \in DOMAIN data.timeseries :
        /\ data.timeseries[k].time + HOUR <= now
        /\ average_dist(data.timeseries[k], forecast_time(now, config.forecast))
              < lastPass.ordered[1].dist
    /\ \E i \in DOMAIN devices : lastPass.extracted[i] # lastPass.before[i]

\* C6: the candidates of a pass are the unexpired entries of the stored series,
\* each with the score |valid_to - target| + |valid_from - target|, in
\* non-decreasing order of score, entries of equal score in feed order.
C6_SortedStable ==
    LET o == lastPass.ordered
        series == data.timeseries
        target == now + config.forecast * HOUR
        live == {k \in DOMAIN series : series[k].time + HOUR > now}
    IN  lastPass.ran =>
        /\ \A k \in DOMAIN o :
            o[k].dist = Abs(o[k].entry.time + HOUR - target) + Abs(o[k].entry.time - target)
        /\ \A k, l \in DOMAIN o : k < l => o[k].dist <= o[l].dist
        /\ Cardinality(live) = Len(o)
        /\ \E pi \in [DOMAIN o -> live] :
            /\ \A k, l \in DOMAIN o : k # l => pi[k] # pi[l]
            /\ \A k \in DOMAIN o : o[k].entry = series[pi[k]]
            /\ \A k, l \in DOMAIN o :
                (k < l /\ o[k].dist = o[l].dist) => pi[k] < pi[l]

\* A pass with two different candidates of equal score, the later of the feed
\* having the earlier window
C6_Witness ==
    /\ Len(lastPass.ordered) >= 2
    /\ lastPass.ordered[1].dist = lastPass.ordered[2].dist
    /\ lastPass.ordered[1].entry.time > lastPass.ordered[2].entry.time

\* C7: a successful fetch stores the payload, runs extraction, then schedules
\* the refresh after 60 minutes; a failed fetch schedules one retry instead.
C7_RefreshSteps ==
    /\ lastFetch.outcome = "ok" =>
        /\ lastFetch.steps = <<"store", "updating_devices", "call_later">>
        /\ lastFetch.scheduled = <<60>>
    /\ lastFetch.outcome \in FailureOutcomes =>
        /\ Len(lastFetch.scheduled) = 1
        /\ lastFetch.scheduled[1] # 60

C9_Delays ==
    /\ \A k \in DOMAIN timers : timers[k] \in (15..20) \cup {60}
    /\ lastFetch.try_again > 0 =>
        /\ Len(lastFetch.scheduled) = 1
        /\ lastFetch.scheduled[1] \in 15..20
    /\ (lastFetch.outcome = "ok" /\ ~lastFetch.raised) => lastFetch.scheduled = <<60>>

\* The longest retry delay, after more than one failure in a row
C9_Witness ==
    /\ failures >= 2
    /\ lastFetch.outcome = "status"
    /\ lastFetch.scheduled = <<20>>
    /\ timers = <<20>>

\* C10 as stated: in a pass, a sensor whose extracted value equals its stored
\* value is neither pushed nor rewritten, and one whose extracted value differs
\* gets exactly one push carrying the new value.
C10_PushIffChanged ==
    lastPass.caller # "none" =>
    \A i \in DOMAIN devices :
        /\ lastPass.extracted[i] = lastPass.before[i] =>
            lastPass.pushed[i] = <<>> /\ devices[i].state = lastPass.before[i]
        /\ lastPass.extracted[i] # lastPass.before[i] =>
            lastPass.pushed[i] = <<lastPass.extracted[i]>>

\* C10 amended: as above, but the push is made only for a sensor already
\* attached to the host; a sensor not yet attached is rewritten without a push.
C10_PushIffChangedAndAttached ==
    lastPass.caller # "none" =>
    \A i \in DOMAIN devices :
        /\ Len(lastPass.pushed[i]) <= 1
        /\ lastPass.extracted[i] = lastPass.before[i] =>
            lastPass.pushed[i] = <<>> /\ devices[i].state = lastPass.before[i]
        /\ lastPass.extracted[i] # lastPass.before[i] =>
            /\ devices[i].state = lastPass.extracted[i]
            /\ lastPass.attached[i] => lastPass.pushed[i] = <<lastPass.extracted[i]>>
            /\ ~lastPass.attached[i] => lastPass.pushed[i] = <<>>

\* A pass that leaves one attached sensor as it was and changes another from
\* one value to another value
C10_Witness ==
    /\ lastPass.ordered # <<>>
    /\ \E i \in DOMAIN devices :
        /\ lastPass.attached[i]
        /\ lastPass.before[i] = "5.0"
        /\ lastPass.pushed[i] = <<"6.2">>
    /\ \E i \in DOMAIN devices :
        /\ lastPass.attached[i]
        /\ lastPass.before[i] # None
        /\ lastPass.extracted[i] = lastPass.before[i]

\* C11 as stated: every change of a sensor's stored value comes with a push
\* for that sensor.
C11_ChangeIsPushed ==
    [][\A i \in DOMAIN devices :
        devices'[i].state # devices[i].state => lastPass'.pushed[i] # <<>>]_vars

\* C11 amended: a stored value changes only in an extraction pass; the change
\* comes with one push of the new value when the sensor is attached to the
\* host, and with none in the pass of the first fetch of setup, when it is not.
C11_ChangeIsPushedWhenAttached ==
    [][\A i \in DOMAIN devices :
        devices'[i].state # devices[i].state =>
            /\ lastPass'.caller # "none"
            /\ devices'[i].state = lastPass'.extracted[i]
            /\ devices[i].hass => lastPass'.pushed[i] = <<devices'[i].state>>
            /\ ~devices[i].hass => (pc = "setup_fetch" /\ lastPass'.pushed[i] = <<>>)
      ]_vars

\* An attached sensor goes from unknown to a value, and the host is told
C11_Witness ==
    /\ lastPass.caller # "none"
    /\ \E i \in DOMAIN devices :
        /\ lastPass.attached[i]
        /\ lastPass.before[i] = None
        /\ devices[i].state # None
        /\ lastPass.pushed[i] = <<devices[i].state>>

\* C12: a pass that runs right after a pass, on the same stored series and at
\* the same clock value, changes no sensor value and pushes nothing.
C12_Idempotent ==
    [][(lastPass.caller # "none" /\ lastPass'.caller # "none"
            /\ data' = data /\ now' = now) =>
        /\ States(devices') = States(devices)
        /\ \A i \in DOMAIN devices : lastPass'.pushed[i] = <<>>]_vars

\* A second pass in a row over a series with candidates, one sensor holding a
\* value and one whose field is in no candidate
C12_Witness ==
    /\ lastPass.caller = "hourly"
    /\ lastPass.repeat
    /\ lastPass.ordered # <<>>
    /\ \E i \in DOMAIN devices : devices[i].state # None
    /\ \E i \in DOMAIN devices :
        WithField(devices[i].type, lastPass.ordered) = {}

\* The stored series has no entry with valid_to > now
NothingLive ==
    \A k \in DOMAIN data.timeseries : data.timeseries[k].time + HOUR <= now

\* C13: a pass over a stored series that is empty or has only entries with
\* valid_to <= now changes no sensor value and pushes nothing.
C13_EmptyCandidates ==
    (lastPass.caller # "none" /\ data.kind = "series" /\ NothingLive) =>
        /\ States(devices) = lastPass.before
        /\ \A i \in DOMAIN devices : lastPass.pushed[i] = <<>>

\* An hourly pass over a non-empty series whose entries have all expired, a
\* sensor holding a value
C13_Witness ==
    /\ lastPass.caller = "hourly"
    /\ data.kind = "series" /\ data.timeseries # <<>>
    /\ NothingLive
    /\ \E i \in DOMAIN devices : devices[i].state # None

\* C14: a step of the hourly trigger runs no fetching_data, leaves the stored
\* series, the refresh in flight and the pending timers as they are, and
\* changes nothing of a sensor but its value.
C14_HourlyOnlyExtracts ==
    [][lastPass'.caller = "hourly" =>
        /\ data' = data
        /\ inflight' = inflight
        /\ timers' = timers
        /\ lastFetch' = NoFetch
        /\ failures' = failures
        /\ <<pc, tracked, added>>' = <<pc, tracked, added>>
        /\ \A i \in DOMAIN devices :
            devices'[i] = [devices[i] EXCEPT !.state = lastPass'.extracted[i]]
      ]_vars

\* An hourly pass that changes a sensor value while a refresh timer is pending
C14_Witness ==
    /\ lastPass.caller = "hourly"
    /\ timers # <<>>
    /\ \E i \in DOMAIN devices : lastPass.pushed[i] # <<>>

\* C15: at most one fetching_data call is in flight, and the calls in flight
\* and the pending refresh and retry timers together are at most one.
C15_OneRefreshChain ==
    /\ inflight <= 1
    /\ inflight + Len(timers) <= 1

\* The hourly trigger runs while a retry is in flight
C15_Witness ==
    /\ lastPass.caller = "hourly"
    /\ inflight = 1
    /\ failures >= 1
    /\ pc = "running"

\* C16: a pass works on one version of the stored series: an hourly pass, also
\* one taken while a fetch is suspended, leaves the series as it is and takes
\* its candidates from all of it; the pass of a fetch takes them from the
\* payload just stored; every value a pass gives a sensor is carried by one of
\* those candidates.
C16_OneSeriesVersion ==
    [][lastPass'.caller # "none" =>
        LET series == data'.timeseries
            o == lastPass'.ordered
        IN  /\ lastPass'.caller = "hourly" => data' = data
            /\ \A k \in DOMAIN o : \E j \in DOMAIN series : o[k].entry = series[j]
            /\ Len(o) = Cardinality({j \in DOMAIN series : series[j].time + HOUR > now'})
            /\ \A i \in DOMAIN devices :
                (devices'[i].state # devices[i].state /\ devices'[i].state # None) =>
                    \E k \in DOMAIN o :
                        /\ HasField(devices'[i].type, o[k].entry)
                        /\ FieldOf(devices'[i].type, o[k].entry) = devices'[i].state
      ]_vars

\* An hourly pass taken while a fetch is suspended gives one sensor a new value
\* and finds a value for every sensor in the stored series
C16_Witness ==
    /\ lastPass.caller = "hourly"
    /\ inflight = 1
    /\ \E i \in DOMAIN devices : lastPass.pushed[i] # <<>>
    /\ \A i \in DOMAIN devices : lastPass.extracted[i] # None

\* C17: when the latitude or the longitude read by setup is None (set neither
\* in the platform configuration nor in hass.config), setup returns at once:
\* no sensor exists or is registered, the hourly trigger is not registered,
\* no fetch runs and no timer is pending, ever.
C17_AbortHasNoEffect ==
    ((config.latitude = None \/ config.longitude = None) /\ pc # "start") =>
        /\ pc = "aborted"
        /\ devices = <<>>
        /\ ~tracked /\ ~added
        /\ inflight = 0 /\ timers = <<>>
        /\ data = EmptyData
        /\ lastFetch = NoFetch /\ lastPass = NoPass

\* Setup has aborted for a missing latitude alone, and time has passed
C17_Witness ==
    /\ pc = "aborted"
    /\ config.latitude = None /\ config.longitude # None
    /\ now > 0

AllUnknown(devs) == \A i \in DOMAIN devs : devs[i].state = None

\* C18: as long as the stored payload is the empty one, a step leaves every
\* sensor unknown and pushes nothing: the sensors start unknown, and neither a
\* failed fetch nor an hourly pass gives one a value.
C18_NoOpBeforeFirstPayload ==
    [][(data = EmptyData /\ data' = EmptyData /\ AllUnknown(devices)) =>
        /\ AllUnknown(devices')
        /\ lastPass'.caller # "none" =>
            \A i \in DOMAIN devices' : lastPass'.pushed[i] = <<>>]_vars

\* The hourly trigger fires after two failed fetches, the sensors registered
\* and still unknown
C18_Witness ==
    /\ lastPass.caller = "hourly"
    /\ failures >= 2
    /\ data = EmptyData
    /\ pc = "running"
    /\ devices # <<>> /\ AllUnknown(devices)

\* C19: setup registers the hourly trigger and starts the first fetch before
\* any sensor is registered; when that fetch ends, whatever its outcome, the
\* sensors are registered and a refresh or a retry is pending.
C19_SetupOrder ==
    [][/\ (pc = "start" /\ pc' # "start" /\ pc' # "aborted") =>
            (pc' = "setup_fetch" /\ tracked' /\ inflight' = 1 /\ ~added')
       /\ (pc = "setup_fetch" /\ pc' # "setup_fetch") =>
            /\ added'
            /\ \A i \in DOMAIN devices' : devices'[i].hass
            /\ Len(timers') = 1
      ]_vars

====
